---- MODULE Spec2Model ----
(***************************************************************************)
(* The streaming session of custom_components/cielo_home/cielohome.py      *)
(* (class CieloHome): login and refresh timer, the websocket task          *)
(* async_connect_wss with its receive/send loop and reconnect cycle, the   *)
(* outbound queue _msg_to_send with its lock, the connection-lost          *)
(* watchdog and the listeners.                                             *)
(*                                                                         *)
(* Time is the integer clock get_ts() reads (seconds).  A step of the      *)
(* websocket task runs from one await to the next, as on an asyncio event  *)
(* loop; threading.Timer callbacks run on their own threads.               *)
(***************************************************************************)
EXTENDS Integers, Sequences, FiniteSets, TLC

\* ---------------------------------------------------------------- bounds
Epoch == 1               \* the clock's reading when the object is constructed
MaxTime == 15            \* seconds of the clock that are followed
MaxCmds == 3             \* send_action calls in a run
MaxFrames == 3           \* inbound text frames in a run
MaxSendFail == 1         \* failed transmissions in a run
MaxListeners == 2        \* add_listener calls in a run
MaxQueueTime == 5        \* seconds followed where the commands are sent
MaxRecvTime == 5         \* seconds followed where the inbound frames are received
MaxLiveTime == 5         \* seconds in which the network fails, where delivery is followed
MaxRefreshTime == 1201   \* seconds followed where the refresh timer ticks
MaxHandshake == 1        \* seconds a handshake takes, where the refresh timer ticks
MaxLate == 1             \* seconds the clock may be past a refresh timer's deadline when it runs
MaxRelogins == 2         \* logins answered with HTTP 200, where logins are repeated
MaxLoginTime == 3        \* seconds followed where logins are repeated
MaxDropTime == 62        \* seconds followed where the connection drops before a refresh tick
MinDropTime == 54        \* seconds before the first drop there
MaxTokenCmds == 1        \* send_action calls where the token is refreshed after a drop
MaxStopTime == 62        \* seconds followed where the session is stopped
MaxGrace == 2            \* readings of the clock that cover the grace period of close()

\* ----------------------------------------------------- program constants
ReconnectDelay == 5          \* asyncio.sleep(5), line 268
ConnectionLostDelay == 10    \* Timer(10, dispatch_connection_lost), line 292
RefreshPeriod == 60          \* Timer(60, refresh_token), line 128
RefreshAfter == 1200         \* the gate of refresh_token, line 135
PingPeriod == 588            \* Timer(588, send_ping), line 287

NoTimer == -1                \* _timer_connection_lost = None
NoTs == -1                   \* _last_refresh_token_ts before the first login

VARIABLES
    now,                    \* the wall clock, in seconds
    pc,                     \* where the async_connect_wss task chain is
    is_running,             \* _is_running
    stop_running,           \* _stop_running
    access_token,           \* _access_token
    refresh_tok,            \* _refresh_token
    session_id,             \* _session_id
    websocket,              \* _websocket: "unset", "open" or "closed"
    event_listener,         \* __event_listener, the listeners in order
    msg_to_send,            \* _msg_to_send
    msg_lock,               \* _msg_lock: "free" or its holder
    timer_refresh,          \* deadlines of the live refresh timers
    timer_ping,             \* deadlines of the live ping timers
    timer_ping_ref,         \* _timer_ping: deadline of the latest ping timer
    timer_connection_lost,  \* _timer_connection_lost: deadline of the latest watchdog
    cl_timers,              \* deadlines of the live watchdog timers
    last_refresh_token_ts,  \* _last_refresh_token_ts
    last_ts_msg,            \* _last_ts_msg
    msg,                    \* local msg of the drain: <<>> is None
    msg_sent,               \* local msg_sent of the drain
    js_data,                \* local js_data: <<>> is unbound
    exc,                    \* the task leaves through `except Exception` (line 255)
    wake,                   \* when the asyncio.sleep(5) of line 268 ends
    enq_waiting,            \* a send_json call of the event-loop thread blocked in acquire()
    pc_other,               \* where a second task chain is, once a login created one
    \* what the environment observes
    stamped,                \* ts of every command, in send_action order
    wire,                   \* websocket.send_json attempts: [cmd, ok]
    rx,                     \* text frames received, in arrival order
    data_received,          \* data_receive calls, per listener
    ep,                     \* the loss episode: its start, listeners and lost_connection calls
    closed_in_loop,         \* close() was called while the task was in its loop
    tick_log,               \* the last refresh tick: its elapsed time and its async_refresh_token calls
    auth_log,               \* the last async_auth call: the server's answer and the value returned
    dropped,                \* Connected was left through an error or a close since the last refresh tick
    quiet                   \* seconds passed with the session stopped and its task ended (where counted)

vars == <<now, pc, is_running, stop_running, access_token, refresh_tok, session_id,
          websocket, event_listener, msg_to_send, msg_lock, timer_refresh, timer_ping,
          timer_ping_ref,
          timer_connection_lost, cl_timers, last_refresh_token_ts, last_ts_msg,
          msg, msg_sent, js_data, exc, wake, enq_waiting,
          stamped, wire, rx, data_received, ep, closed_in_loop, tick_log,
          pc_other, auth_log, dropped, quiet>>

sessionVars == <<access_token, refresh_tok, session_id>>
flagVars == <<is_running, stop_running>>
queueVars == <<msg_to_send, msg_lock, msg, msg_sent, enq_waiting, wire>>
stampVars == <<last_ts_msg, stamped>>
recvVars == <<js_data, rx, data_received>>
watchdogVars == <<timer_connection_lost, cl_timers, ep>>
pingVars == <<timer_ping, timer_ping_ref>>
refreshVars == <<timer_refresh, last_refresh_token_ts, tick_log, dropped>>
loginVars == <<pc_other, auth_log>>

Listeners == 1..MaxListeners
LoopPcs == {"recv", "send", "sleep"}
NoEpisode == [start |-> -1, obs |-> 0, lost |-> [l \in Listeners |-> 0]]
NoTick == [elapsed |-> -1, calls |-> 0, resp |-> ""]
NoAuth == [resp |-> "", result |-> FALSE]

\* the event-loop thread is stuck inside threading.Lock.acquire()
LoopBlocked == enq_waiting # <<>>

\* ------------------------------------------------------------------ Init
\* CieloHome.__init__
Init ==
    /\ now = Epoch
    /\ pc = "none"
    /\ is_running = TRUE
    /\ stop_running = FALSE
    /\ access_token = ""
    /\ refresh_tok = ""
    /\ session_id = ""
    /\ websocket = "unset"
    /\ event_listener = <<>>
    /\ msg_to_send = <<>>
    /\ msg_lock = "free"
    /\ timer_refresh = {}
    /\ timer_ping = {}
    /\ timer_ping_ref = NoTimer
    /\ timer_connection_lost = NoTimer
    /\ cl_timers = {}
    /\ last_refresh_token_ts = NoTs
    /\ last_ts_msg = 0
    /\ msg = <<>>
    /\ msg_sent = FALSE
    /\ js_data = <<>>
    /\ exc = FALSE
    /\ wake = 0
    /\ enq_waiting = <<>>
    /\ stamped = <<>>
    /\ wire = <<>>
    /\ rx = <<>>
    /\ data_received = [l \in Listeners |-> <<>>]
    /\ ep = NoEpisode
    /\ closed_in_loop = FALSE
    /\ tick_log = NoTick
    /\ pc_other = "none"
    /\ auth_log = NoAuth
    /\ dropped = FALSE
    /\ quiet = 0

\* ------------------------------------------------------------ listeners
\* add_listener (lines 50-52); the listeners are numbered in the order they register
AddListener ==
    /\ ~LoopBlocked
    /\ Len(event_listener) < MaxListeners
    /\ event_listener' = Append(event_listener, Len(event_listener) + 1)
    /\ UNCHANGED <<now, pc, flagVars, sessionVars, websocket, queueVars, stampVars,
                   recvVars, watchdogVars, refreshVars, pingVars, exc, wake,
                   closed_in_loop, loginVars, quiet>>

Registered == {event_listener[i] : i \in 1..Len(event_listener)}

\* ------------------------------------------------------------ login
\* start_timer_refreshtoken (lines 126-129): a new Timer; an older one is not cancelled
StartTimerRefresh(timers) == timers \cup {now + RefreshPeriod}

\* async_auth (lines 100-124), from the answer of POST /web/login on:
\*   "error"    the HTTP status is not 200
\*   "rejected" HTTP 200 with a body that is not status 200 / SUCCESS
\*   "accepted" HTTP 200, status 200, SUCCESS
\* create_task (line 118) starts a task chain; with one running already, the
\* new one runs beside it.  It returns `self._access_token != ""` (line 122).
\* A task that was created begins while the login awaits its requests.
AsyncAuth(resp, connect_ws) ==
    /\ ~LoopBlocked
    /\ pc # "start"
    /\ pc_other # "start"
    /\ IF resp = "error"
       THEN /\ auth_log' = [resp |-> resp, result |-> FALSE]
            /\ UNCHANGED <<sessionVars, pc, pc_other, last_refresh_token_ts, timer_refresh>>
       ELSE /\ IF resp = "accepted"
               THEN /\ access_token' = "tok1"
                    /\ refresh_tok' = "ref1"
                    /\ session_id' = "sid1"
               ELSE UNCHANGED sessionVars
            /\ LET creates == connect_ws /\ access_token' # ""
                   first == pc \in {"none", "done"}
               IN  /\ (creates /\ ~first) => pc_other = "none"
                   /\ pc' = IF creates /\ first THEN "start" ELSE pc
                   /\ pc_other' = IF creates /\ ~first THEN "start" ELSE pc_other
            /\ last_refresh_token_ts' = now
            /\ timer_refresh' = StartTimerRefresh(timer_refresh)
            /\ auth_log' = [resp |-> resp, result |-> access_token' # ""]
    /\ UNCHANGED <<now, flagVars, websocket, event_listener, queueVars, stampVars,
                   recvVars, watchdogVars, pingVars, exc, wake, closed_in_loop, tick_log,
                   dropped, quiet>>

\* ------------------------------------------------------------ close
\* close (lines 44-48); the sleep of half a second changes nothing
Close ==
    /\ ~LoopBlocked
    /\ stop_running' = TRUE
    /\ is_running' = FALSE
    /\ closed_in_loop' = (closed_in_loop \/ pc \in LoopPcs)
    /\ UNCHANGED <<now, pc, sessionVars, websocket, event_listener, queueVars, stampVars,
                   recvVars, watchdogVars, refreshVars, pingVars, exc, wake, loginVars,
                   quiet>>

\* ------------------------------------------------- the websocket task
\* async_connect_wss up to its first await (lines 162-188): the flags are set
\* again, then the handshake is awaited.  The locals of the call are fresh.
Begin ==
    /\ ~LoopBlocked
    /\ pc = "start"
    /\ is_running' = TRUE
    /\ stop_running' = FALSE
    /\ pc' = "connecting"
    /\ js_data' = <<>>
    /\ msg' = <<>>
    /\ msg_sent' = FALSE
    /\ exc' = FALSE
    /\ UNCHANGED <<now, sessionVars, websocket, event_listener, msg_to_send, msg_lock,
                   enq_waiting, wire, stampVars, rx, data_received, watchdogVars, refreshVars, pingVars, wake,
                   closed_in_loop, loginVars, quiet>>

StopTimerNoCancel(timers) == timers

\* stop_timer_connection_lost (lines 295-298): cancels the latest watchdog only
StopTimerConnectionLost(timers) ==
    IF timer_connection_lost # NoTimer THEN timers \ {timer_connection_lost} ELSE timers

\* start_timer_ping (lines 285-288): a new Timer; an older one is not cancelled
StartTimerPing(timers) == timers \cup {now + PingPeriod}

\* `while self._is_running` (line 198): the loop goes on to receive() or is left,
\* which leaves both `async with` blocks
LoopTop == IF is_running THEN "recv" ELSE "closing"

\* the handshake succeeded (lines 189-198)
ConnectOK ==
    /\ ~LoopBlocked
    /\ pc = "connecting"
    /\ websocket' = "open"
    /\ cl_timers' = StopTimerConnectionLost(cl_timers)
    /\ last_refresh_token_ts' = now
    /\ timer_ping' = StartTimerPing(timer_ping)
    /\ timer_ping_ref' = now + PingPeriod
    /\ pc' = LoopTop
    /\ ep' = NoEpisode
    /\ UNCHANGED <<now, flagVars, sessionVars, event_listener, queueVars, stampVars,
                   recvVars, timer_connection_lost, timer_refresh, tick_log, dropped, exc,
                   wake, closed_in_loop, loginVars, quiet>>

\* ws_connect raised: the task leaves through `except Exception` (line 255)
ConnectFail ==
    /\ ~LoopBlocked
    /\ pc = "connecting"
    /\ pc' = "closing"
    /\ exc' = TRUE
    /\ UNCHANGED <<now, flagVars, sessionVars, websocket, event_listener, queueVars,
                   stampVars, recvVars, watchdogVars, refreshVars, pingVars, wake,
                   closed_in_loop, loginVars, quiet>>

ShouldReconnectAlways == TRUE
ShouldReconnectNever == FALSE

\* `if not self._stop_running` (line 263)
ShouldReconnect == ~stop_running

\* start_timer_connection_lost (lines 290-293): a new Timer; an older one is not cancelled
StartTimerConnectionLost(timers) == timers \cup {now + ConnectionLostDelay}

\* the websocket once the `async with` blocks are left: the context manager closes it
WsAfterExit == IF websocket = "open" THEN "closed" ELSE websocket

\* lines 255-269, after the `async with` blocks are left: the except clause, the
\* check of the socket, and either the watchdog and the sleep of 5 s or the end
Teardown ==
    /\ ~LoopBlocked
    /\ pc = "closing"
    /\ last_refresh_token_ts' = IF exc THEN now - RefreshAfter ELSE last_refresh_token_ts
    /\ websocket' = WsAfterExit
    /\ timer_ping' = IF WsAfterExit = "open"
                     THEN timer_ping \ {timer_ping_ref}
                     ELSE timer_ping
    /\ UNCHANGED timer_ping_ref
    /\ exc' = FALSE
    /\ IF ShouldReconnect
       THEN /\ cl_timers' = StartTimerConnectionLost(cl_timers)
            /\ timer_connection_lost' = now + ConnectionLostDelay
            /\ wake' = now + ReconnectDelay
            /\ pc' = "wait"
            /\ ep' = IF ep.start = -1
                     THEN [start |-> now, obs |-> Len(event_listener),
                           lost |-> [l \in Listeners |-> 0]]
                     ELSE ep
       ELSE /\ pc' = "done"
            /\ UNCHANGED <<watchdogVars, wake>>
    /\ UNCHANGED <<now, flagVars, sessionVars, event_listener, queueVars, stampVars,
                   recvVars, timer_refresh, tick_log, dropped, closed_in_loop, loginVars, quiet>>

\* A watchdog that is due.  It was started at least 5 s before the sleep that
\* ends at the same reading of the clock, so it fires before that sleep ends.
WatchdogDue == \E d \in cl_timers : d <= now

\* the sleep of line 268 ends: asyncio.create_task(self.async_connect_wss(True))
ReconnectWake ==
    /\ ~LoopBlocked
    /\ pc = "wait"
    /\ now >= wake
    /\ ~WatchdogDue
    /\ pc' = "start"
    /\ UNCHANGED <<now, flagVars, sessionVars, websocket, event_listener, queueVars,
                   stampVars, recvVars, watchdogVars, refreshVars, pingVars, exc, wake,
                   closed_in_loop, loginVars, quiet>>

\* dispatch_connection_lost (lines 300-303), on the Timer's thread
DispatchConnectionLost(d) ==
    /\ d \in cl_timers
    /\ d <= now
    /\ cl_timers' = cl_timers \ {d}
    /\ ep' = IF ep.start = -1
             THEN ep
             ELSE [ep EXCEPT !.lost = [l \in Listeners |->
                                IF l \in Registered THEN ep.lost[l] + 1 ELSE ep.lost[l]]]
    /\ UNCHANGED <<now, pc, flagVars, sessionVars, websocket, event_listener, queueVars,
                   stampVars, recvVars, timer_connection_lost, refreshVars, pingVars,
                   exc, wake, closed_in_loop, loginVars, quiet>>

\* ------------------------------------------- a second task chain
\* async_connect_wss of the task a later login created, up to its first await
\* (lines 162-188)
OtherBegin ==
    /\ ~LoopBlocked
    /\ pc_other = "start"
    /\ is_running' = TRUE
    /\ stop_running' = FALSE
    /\ pc_other' = "connecting"
    /\ UNCHANGED <<now, pc, sessionVars, websocket, event_listener, queueVars, stampVars,
                   recvVars, watchdogVars, refreshVars, pingVars, exc, wake,
                   closed_in_loop, auth_log, quiet>>

\* its handshake succeeded (lines 189-198); its loop is not followed further
OtherConnectOK ==
    /\ ~LoopBlocked
    /\ pc_other = "connecting"
    /\ websocket' = "open"
    /\ cl_timers' = StopTimerConnectionLost(cl_timers)
    /\ last_refresh_token_ts' = now
    /\ timer_ping' = StartTimerPing(timer_ping)
    /\ timer_ping_ref' = now + PingPeriod
    /\ pc_other' = "open"
    /\ UNCHANGED <<now, pc, flagVars, sessionVars, event_listener, queueVars, stampVars,
                   recvVars, timer_connection_lost, ep, timer_refresh, tick_log, dropped,
                   exc, wake, closed_in_loop, auth_log, quiet>>

\* --------------------------------------------------- the outbound queue
\* lines 229-237: msg_sent and msg are reset; the lock is taken when the queue
\* is not empty; the first command is popped and its transmission awaited, or,
\* the queue being empty, the sleep of line 254 is awaited
DrainBegin ==
    IF Len(msg_to_send) > 0
    THEN /\ msg_lock' = "loop"
         /\ msg_sent' = TRUE
         /\ msg' = <<Head(msg_to_send)>>
         /\ msg_to_send' = Tail(msg_to_send)
         /\ pc' = "send"
    ELSE /\ msg_sent' = FALSE
         /\ msg' = <<>>
         /\ pc' = "sleep"
         /\ UNCHANGED <<msg_lock, msg_to_send>>

RequeueAtBack(queue, m) == Append(queue, m)

\* `self._msg_to_send.insert(0, msg)` (line 249)
Requeue(queue, m) == <<m>> \o queue

\* `await self._websocket.send_json(msg)` returned (lines 244-245, 236-237, 250-254)
SendOK ==
    /\ ~LoopBlocked
    /\ pc = "send"
    /\ wire' = Append(wire, [cmd |-> msg[1], ok |-> TRUE])
    /\ IF Len(msg_to_send) > 0
       THEN /\ msg' = <<Head(msg_to_send)>>
            /\ msg_to_send' = Tail(msg_to_send)
            /\ UNCHANGED <<pc, msg_lock, msg_sent>>
       ELSE /\ msg' = <<>>
            /\ msg_lock' = IF msg_sent THEN "free" ELSE msg_lock
            /\ pc' = "sleep"
            /\ UNCHANGED <<msg_to_send, msg_sent>>
    /\ UNCHANGED <<now, flagVars, sessionVars, websocket, event_listener, enq_waiting,
                   stampVars, recvVars, watchdogVars, refreshVars, pingVars, exc, wake,
                   closed_in_loop, loginVars, quiet>>

Failures == Cardinality({i \in 1..Len(wire) : ~wire[i].ok})

\* `await self._websocket.send_json(msg)` raised (lines 246-254)
SendFail ==
    /\ ~LoopBlocked
    /\ pc = "send"
    /\ Failures < MaxSendFail
    /\ wire' = Append(wire, [cmd |-> msg[1], ok |-> FALSE])
    /\ msg_to_send' = Requeue(msg_to_send, msg[1])
    /\ msg_lock' = IF msg_sent THEN "free" ELSE msg_lock
    /\ pc' = "sleep"
    /\ UNCHANGED <<now, flagVars, sessionVars, websocket, event_listener, msg, msg_sent,
                   enq_waiting, stampVars, recvVars, watchdogVars, refreshVars, pingVars,
                   exc, wake, closed_in_loop, loginVars, quiet>>

\* the sleep of line 254 ends: back to `while self._is_running`
LoopWake ==
    /\ ~LoopBlocked
    /\ pc = "sleep"
    /\ pc' = LoopTop
    /\ UNCHANGED <<now, flagVars, sessionVars, websocket, event_listener, queueVars,
                   stampVars, recvVars, watchdogVars, refreshVars, pingVars, exc, wake,
                   closed_in_loop, loginVars, quiet>>

\* get_ts() and the bump of lines 275-279
StampTs(t) == IF t = last_ts_msg THEN t + 1 ELSE t

\* send_action (lines 271-283) with send_json (lines 312-318), called on the
\* event-loop thread.  The commands are numbered in call order.  With the lock
\* held by the suspended drain, acquire() blocks the thread.
SendAction ==
    /\ ~LoopBlocked
    /\ Len(stamped) < MaxCmds
    /\ LET command == [id |-> Len(stamped) + 1, token |-> access_token,
                       mid |-> session_id, ts |-> StampTs(now)]
       IN  /\ last_ts_msg' = command.ts
           /\ stamped' = Append(stamped, command.ts)
           /\ IF msg_lock = "free"
              THEN /\ msg_to_send' = Append(msg_to_send, command)
                   /\ UNCHANGED enq_waiting
              ELSE /\ enq_waiting' = <<command>>
                   /\ UNCHANGED msg_to_send
    /\ UNCHANGED <<now, pc, flagVars, sessionVars, websocket, event_listener, msg_lock,
                   msg, msg_sent, wire, recvVars, watchdogVars, refreshVars, pingVars,
                   exc, wake, closed_in_loop, loginVars, quiet>>

\* ------------------------------------------------------------- receive
\* receive(timeout=0.1) timed out (lines 224-225)
ReceiveTimeout ==
    /\ ~LoopBlocked
    /\ pc = "recv"
    /\ DrainBegin
    /\ UNCHANGED <<now, flagVars, sessionVars, websocket, event_listener, enq_waiting,
                   wire, stampVars, recvVars, watchdogVars, refreshVars, pingVars, exc,
                   wake, closed_in_loop, loginVars, quiet>>

\* a CLOSE, CLOSED or CLOSING message: break (lines 201-207)
ReceiveClose ==
    /\ ~LoopBlocked
    /\ pc = "recv"
    /\ pc' = "closing"
    /\ dropped' = TRUE
    /\ UNCHANGED <<now, flagVars, sessionVars, websocket, event_listener, queueVars,
                   stampVars, recvVars, watchdogVars, timer_refresh, last_refresh_token_ts, tick_log, pingVars, exc, wake,
                   closed_in_loop, loginVars, quiet>>

\* receive() raised, or returned an ERROR message whose data json.loads rejects
\* with a TypeError: the exception reaches `except Exception` (line 255)
ReceiveError ==
    /\ ~LoopBlocked
    /\ pc = "recv"
    /\ pc' = "closing"
    /\ dropped' = TRUE
    /\ exc' = TRUE
    /\ UNCHANGED <<now, flagVars, sessionVars, websocket, event_listener, queueVars,
                   stampVars, recvVars, watchdogVars, timer_refresh, last_refresh_token_ts, tick_log, pingVars, wake,
                   closed_in_loop, loginVars, quiet>>

\* the text frames: `json` tells whether json.loads accepts the text
Frame(json, type, n) == [json |-> json, message_type |-> type, data |-> n]
MessageTypes == {"StateUpdate", "Ping"}

\* json.loads (lines 209-219): a ValueError leaves js_data as it was
Parse(frame, old) == IF frame.json THEN <<frame>> ELSE old

DispatchesAll(data) == TRUE

\* `if js_data["message_type"] == "StateUpdate"` (line 221)
IsStateUpdate(data) == data.message_type = "StateUpdate"

\* a text frame arrived (lines 200-223, then 229-237).  The frames are numbered
\* in arrival order.
ReceiveText(json, type) ==
    /\ ~LoopBlocked
    /\ pc = "recv"
    /\ Len(rx) < MaxFrames
    /\ LET frame == Frame(json, IF json THEN type ELSE "", Len(rx) + 1)
           data == Parse(frame, js_data)
       IN  /\ rx' = Append(rx, frame)
           /\ js_data' = data
           /\ IF data = <<>>
              THEN \* js_data is unbound: UnboundLocalError at line 221
                   /\ pc' = "closing"
                   /\ exc' = TRUE
                   /\ dropped' = TRUE
                   /\ UNCHANGED <<data_received, msg_to_send, msg_lock, msg, msg_sent>>
              ELSE /\ data_received' =
                         IF IsStateUpdate(data[1])
                         THEN [l \in Listeners |->
                                 IF l \in Registered
                                 THEN Append(data_received[l], data[1])
                                 ELSE data_received[l]]
                         ELSE data_received
                   /\ DrainBegin
                   /\ UNCHANGED <<exc, dropped>>
    /\ UNCHANGED <<now, flagVars, sessionVars, websocket, event_listener, enq_waiting,
                   wire, stampVars, watchdogVars, timer_refresh, last_refresh_token_ts, tick_log, pingVars, wake,
                   closed_in_loop, loginVars, quiet>>

\* ------------------------------------------------------------- refresh
RefreshDueFrom1200(elapsed) == elapsed >= RefreshAfter

\* `(self.get_ts() - self._last_refresh_token_ts) > 1200` (line 135)
RefreshDue(elapsed) == elapsed > RefreshAfter

\* async_refresh_token (lines 138-158), from the answer of GET /web/token/refresh on:
\*   "error"    the HTTP status is not 200
\*   "rejected" HTTP 200 with a body that is not status 200 / SUCCESS
\*   "raises"   the request or the body raises before line 154
\*   "partial"  SUCCESS with data.accessToken and without data.refreshToken:
\*              line 154 has assigned when line 155 raises KeyError
\*   "accepted" SUCCESS with both tokens
RefreshAnswers == {"error", "rejected", "raises", "partial", "accepted"}

AsyncRefreshToken(resp) ==
    CASE resp = "accepted" -> /\ access_token' = "tok2"
                              /\ refresh_tok' = "ref2"
                              /\ last_refresh_token_ts' = now
                              /\ UNCHANGED session_id
      [] resp = "partial"  -> /\ access_token' = "tok2"
                              /\ UNCHANGED <<refresh_tok, session_id, last_refresh_token_ts>>
      [] OTHER             -> UNCHANGED <<sessionVars, last_refresh_token_ts>>

\* refresh_token (lines 131-136), on the thread of the refresh Timer with deadline d
RefreshToken(d, resp) ==
    /\ d \in timer_refresh
    /\ d <= now
    /\ timer_refresh' = StartTimerRefresh(timer_refresh \ {d})
    /\ dropped' = FALSE
    /\ LET elapsed == now - last_refresh_token_ts
       IN  IF RefreshDue(elapsed)
           THEN /\ AsyncRefreshToken(resp)
                /\ tick_log' = [elapsed |-> elapsed, calls |-> 1, resp |-> resp]
           ELSE /\ tick_log' = [elapsed |-> elapsed, calls |-> 0, resp |-> ""]
                /\ UNCHANGED <<sessionVars, last_refresh_token_ts>>
    /\ UNCHANGED <<now, pc, flagVars, websocket, event_listener, queueVars, stampVars,
                   recvVars, watchdogVars, pingVars, exc, wake, closed_in_loop, loginVars,
                   quiet>>

\* ---------------------------------------------------------------- ping
\* send_ping (lines 305-310) with send_json (lines 312-318), on the thread of
\* the ping Timer with deadline d; acquire() returns once the lock is free
SendPing(d) ==
    /\ d \in timer_ping
    /\ d <= now
    /\ msg_lock = "free"
    /\ timer_ping' = StartTimerPing(timer_ping \ {d})
    /\ timer_ping_ref' = now + PingPeriod
    /\ msg_to_send' = Append(msg_to_send,
                             [message |-> "Ping Connection Reset", token |-> access_token])
    /\ UNCHANGED <<now, pc, flagVars, sessionVars, websocket, event_listener, msg_lock,
                   msg, msg_sent, enq_waiting, wire, stampVars, recvVars, watchdogVars,
                   refreshVars, exc, wake, closed_in_loop, loginVars, quiet>>

\* receive(timeout=0.1) timed out, and the ping Timer's thread runs send_ping
\* between the two tests of the queue's length: line 232 finds the queue empty
\* and takes no lock, send_json appends the keepalive, line 236 finds it and
\* line 237 pops it, msg_sent being False
ReceiveTimeoutPingBetween(d) ==
    /\ ~LoopBlocked
    /\ pc = "recv"
    /\ Len(msg_to_send) = 0
    /\ msg_lock = "free"
    /\ d \in timer_ping
    /\ d <= now
    /\ timer_ping' = StartTimerPing(timer_ping \ {d})
    /\ timer_ping_ref' = now + PingPeriod
    /\ msg_sent' = FALSE
    /\ msg' = <<[message |-> "Ping Connection Reset", token |-> access_token]>>
    /\ pc' = "send"
    /\ UNCHANGED <<now, flagVars, sessionVars, websocket, event_listener, msg_to_send,
                   msg_lock, enq_waiting, wire, stampVars, recvVars, watchdogVars,
                   refreshVars, exc, wake, closed_in_loop, loginVars, quiet>>

\* ---------------------------------------------------------------- time
\* a timer or a sleep that is due and can run
Due ==
    \/ WatchdogDue
    \/ \E d \in timer_ping : d <= now
    \/ \E d \in timer_refresh : d + MaxLate <= now
    \/ pc = "wait" /\ wake <= now /\ ~LoopBlocked
    \/ pc = "start" /\ ~LoopBlocked

\* one second passes; what is due runs first
PassTo(q) ==
    /\ ~Due
    /\ now' = now + 1
    /\ quiet' = q
    /\ UNCHANGED <<pc, flagVars, sessionVars, websocket, event_listener, queueVars,
                   stampVars, recvVars, watchdogVars, refreshVars, pingVars, exc, wake,
                   closed_in_loop, loginVars>>

Pass == PassTo(quiet)

\* one second passes, counted once the session is stopped and its task has ended
PassStopped ==
    PassTo(IF stop_running /\ pc = "done"
           THEN (IF quiet < MaxGrace THEN quiet + 1 ELSE quiet)
           ELSE 0)

\* the clock is followed for `limit` seconds
Advance(limit) == now < Epoch + limit /\ Pass

\* ------------------------------------------------------ specifications
\* the task's way to the loop and back (lines 160-207, 224-269)
Connection ==
    \/ Begin
    \/ ConnectOK
    \/ ConnectFail
    \/ Teardown
    \/ ReconnectWake
    \/ ReceiveTimeout
    \/ ReceiveClose
    \/ ReceiveError
    \/ LoopWake

\* the connection's life: the logins up to the first that is answered with
\* HTTP 200, connect, drop, reconnect, watchdog and close()
Next ==
    \/ \E resp \in {"error", "rejected", "accepted"}, connect_ws \in BOOLEAN :
          pc = "none" /\ timer_refresh = {} /\ AsyncAuth(resp, connect_ws)
    \/ Connection
    \/ \E d \in cl_timers : DispatchConnectionLost(d)
    \/ AddListener
    \/ Close
    \/ Advance(MaxTime)

Spec == Init /\ [][Next]_vars

\* repeated logins, each with any answer, beside the task the first one created
NextLogin ==
    \/ \E resp \in {"error", "rejected", "accepted"}, connect_ws \in BOOLEAN :
          Cardinality(timer_refresh) < MaxRelogins /\ AsyncAuth(resp, connect_ws)
    \/ Begin
    \/ ConnectOK
    \/ ReceiveTimeout
    \/ LoopWake
    \/ OtherBegin
    \/ OtherConnectOK
    \/ Advance(MaxLoginTime)

SpecLogin == Init /\ [][NextLogin]_vars

\* the session after `async_auth(user, password, True)` was accepted, before the
\* task it created has run
InitSession ==
    /\ now = Epoch
    /\ pc = "start"
    /\ is_running = TRUE
    /\ stop_running = FALSE
    /\ access_token = "tok1"
    /\ refresh_tok = "ref1"
    /\ session_id = "sid1"
    /\ websocket = "unset"
    /\ event_listener = <<>>
    /\ msg_to_send = <<>>
    /\ msg_lock = "free"
    /\ timer_refresh = {Epoch + RefreshPeriod}
    /\ timer_ping = {}
    /\ timer_ping_ref = NoTimer
    /\ timer_connection_lost = NoTimer
    /\ cl_timers = {}
    /\ last_refresh_token_ts = Epoch
    /\ last_ts_msg = 0
    /\ msg = <<>>
    /\ msg_sent = FALSE
    /\ js_data = <<>>
    /\ exc = FALSE
    /\ wake = 0
    /\ enq_waiting = <<>>
    /\ stamped = <<>>
    /\ wire = <<>>
    /\ rx = <<>>
    /\ data_received = [l \in Listeners |-> <<>>]
    /\ ep = NoEpisode
    /\ closed_in_loop = FALSE
    /\ tick_log = NoTick
    /\ pc_other = "none"
    /\ auth_log = [resp |-> "accepted", result |-> TRUE]
    /\ dropped = FALSE
    /\ quiet = 0

\* the outbound commands: send_action, the drain and its failures, over reconnects
\* (no watchdog is due within MaxQueueTime or MaxRecvTime seconds)
NextQueue ==
    \/ Connection
    \/ SendAction
    \/ SendOK
    \/ SendFail
    \/ Advance(MaxQueueTime)

SpecQueue == InitSession /\ [][NextQueue]_vars

\* the inbound frames and their dispatch to the listeners, over reconnects
NextRecv ==
    \/ Connection
    \/ AddListener
    \/ \E json \in BOOLEAN, type \in MessageTypes : ReceiveText(json, type)
    \/ Advance(MaxRecvTime)

SpecRecv == InitSession /\ [][NextRecv]_vars

\* the refresh timer over 20 minutes of a connection that stays up: the
\* handshake, the idle loop, the keepalive and its transmission
NextRefresh ==
    \/ Begin
    \/ ConnectOK
    \/ ReceiveTimeout
    \/ LoopWake
    \/ SendOK
    \/ \E d \in timer_ping : SendPing(d)
    \/ \E d \in timer_ping : ReceiveTimeoutPingBetween(d)
    \/ \E d \in timer_refresh, resp \in RefreshAnswers : RefreshToken(d, resp)
    \/ (pc = "connecting" => now < Epoch + MaxHandshake) /\ Advance(MaxRefreshTime)

SpecRefresh == InitSession /\ [][NextRefresh]_vars

\* the first refresh ticks of a connection that is up for MinDropTime seconds,
\* then drops and is opened again
NetworkDrops == now >= Epoch + MinDropTime

NextDrop ==
    \/ Begin
    \/ ConnectOK
    \/ NetworkDrops /\ ConnectFail
    \/ Teardown
    \/ ReconnectWake
    \/ ReceiveTimeout
    \/ NetworkDrops /\ ReceiveClose
    \/ NetworkDrops /\ ReceiveError
    \/ LoopWake
    \/ \E d \in timer_refresh, resp \in RefreshAnswers : RefreshToken(d, resp)
    \/ Advance(MaxDropTime)

SpecDrop == InitSession /\ [][NextDrop]_vars

\* The delivery of the commands.  The network fails only within the first
\* MaxLiveTime seconds (and a transmission MaxSendFail times); the sleep of a
\* reconnect wait that has begun runs to its end; close() is not called.
NetworkFails == now <= Epoch + MaxLiveTime

NextLive ==
    \/ Begin
    \/ ConnectOK
    \/ NetworkFails /\ ConnectFail
    \/ Teardown
    \/ ReconnectWake
    \/ \E d \in cl_timers : DispatchConnectionLost(d)
    \/ ReceiveTimeout
    \/ NetworkFails /\ ReceiveClose
    \/ NetworkFails /\ ReceiveError
    \/ LoopWake
    \/ SendAction
    \/ SendOK
    \/ SendFail
    \/ Advance(MaxLiveTime)
    \/ pc = "wait" /\ now < wake /\ Pass

\* The event loop runs the task whenever it is ready and time goes on:
\* with the failures bounded, every handshake and every transmission that is
\* awaited ends, and in the end succeeds.
SpecLive == InitSession /\ [][NextLive]_vars /\ WF_vars(NextLive)

\* commands sent around a drop and the refresh tick that follows it: the
\* connection is up for MinDropTime seconds, then receive() raises
NextToken ==
    \/ Begin
    \/ ConnectOK
    \/ Teardown
    \/ ReconnectWake
    \/ ReceiveTimeout
    \/ NetworkDrops /\ ReceiveError
    \/ LoopWake
    \/ NetworkDrops /\ Len(stamped) < MaxTokenCmds /\ SendAction
    \/ SendOK
    \/ \E d \in timer_refresh, resp \in RefreshAnswers : RefreshToken(d, resp)
    \/ Advance(MaxDropTime)

SpecToken == InitSession /\ [][NextToken]_vars

\* a connection that stays up until close() is called, and the timers after it
NextStop ==
    \/ Begin
    \/ ConnectOK
    \/ ReceiveTimeout
    \/ LoopWake
    \/ Close
    \/ Teardown
    \/ \E d \in timer_refresh, resp \in RefreshAnswers : RefreshToken(d, resp)
    \/ now < Epoch + MaxStopTime /\ PassStopped

SpecStop == InitSession /\ [][NextStop]_vars

\* The reconnect cycle of a session that is not stopped.  The network fails only
\* within the first MaxLiveTime seconds; the sleep of a reconnect wait that has
\* begun runs to its end; close() is not called.
NextReconnect ==
    \/ Begin
    \/ ConnectOK
    \/ NetworkFails /\ ConnectFail
    \/ Teardown
    \/ ReconnectWake
    \/ \E d \in cl_timers : DispatchConnectionLost(d)
    \/ ReceiveTimeout
    \/ NetworkFails /\ ReceiveClose
    \/ NetworkFails /\ ReceiveError
    \/ LoopWake
    \/ Advance(MaxLiveTime)
    \/ pc = "wait" /\ now < wake /\ Pass

\* The event loop runs the task whenever it is ready and time goes on.
SpecReconnect == InitSession /\ [][NextReconnect]_vars /\ WF_vars(NextReconnect)

\* ------------------------------------------------------------- claims
\* what the observations say
IsOk(w) == w.ok
Transmitted == SelectSeq(wire, IsOk)           \* the transmissions that succeeded
InFlight == IF pc = "send" THEN msg ELSE <<>>  \* the command being transmitted
Pending == InFlight \o msg_to_send \o enq_waiting

\* C1: the ts values stamped on consecutive commands are strictly increasing,
\* also for three or more commands stamped within one second.
C1_TsStrictlyIncreasing ==
    \A i \in 1..(Len(stamped) - 1) : stamped[i] < stamped[i + 1]

\* C2: the commands are transmitted in enqueue order; a command whose
\* transmission fails is put back at the front, so the next transmission is of
\* that command, then of the commands behind it in their order; a command that
\* was transmitted is not transmitted again.
C2_FifoAndRetryFirst ==
    /\ Len(Transmitted) + Len(Pending) = Len(stamped)
    /\ \A i \in 1..Len(Transmitted) : Transmitted[i].cmd.id = i
    /\ \A i \in 1..Len(Pending) : Pending[i].id = Len(Transmitted) + i
    /\ \A i \in 1..(Len(wire) - 1) : ~wire[i].ok => wire[i + 1].cmd = wire[i].cmd

\* A, B and C were enqueued, the transmission of B failed once, all three were transmitted
C2_Witness ==
    /\ Len(Transmitted) = 3
    /\ \E i \in 1..Len(wire) : ~wire[i].ok /\ wire[i].cmd.id = 2

\* C3: in a loss episode that lasts longer than the watchdog's 10 s, every
\* listener registered when it began gets lost_connection exactly once, however
\* many reconnect attempts fail.
C3_LostOncePerEpisode ==
    ep.start # -1 =>
        \A l \in 1..ep.obs :
            /\ ep.lost[l] <= 1
            /\ now > ep.start + ConnectionLostDelay => ep.lost[l] = 1

\* C4: while a loss episode is younger than 10 s no listener gets
\* lost_connection, and once the connection is established no watchdog is left
\* to fire: the episode that ended in time is never reported.
C4_NoLossIfReconnectedInTime ==
    /\ (ep.start # -1 /\ now < ep.start + ConnectionLostDelay) =>
           \A l \in Listeners : ep.lost[l] = 0
    /\ pc \in LoopPcs => cl_timers = {}

\* connected again, with a listener, less than 10 s after the first watchdog was started
C4_Witness ==
    /\ pc \in LoopPcs
    /\ timer_connection_lost # NoTimer
    /\ now < timer_connection_lost
    /\ now < Epoch + ConnectionLostDelay
    /\ Len(event_listener) > 0

\* C5: after close() was called while the task was in its loop, the loop is
\* left at the end of its iteration, no watchdog is started and no new
\* connection task is scheduled.
C5_NoReconnectAfterStop ==
    [][closed_in_loop =>
          /\ pc' \in LoopPcs \cup {"closing", "done"}
          /\ (pc = "sleep" /\ pc' # pc) => pc' = "closing"
          /\ pc = "closing" => pc' \in {"closing", "done"}
          /\ cl_timers' \subseteq cl_timers]_vars

\* close() was called in the loop and the task has ended
C5_Witness == closed_in_loop /\ pc = "done" /\ websocket = "closed"

\* C6: once close() was called the stop request stays in force and the task
\* never starts a connection attempt again.
C6_ClosedIsTerminal ==
    [][stop_running =>
          /\ stop_running'
          /\ ~is_running'
          /\ pc' = "connecting" => pc = "connecting"]_vars

\* the text frame a step received, if it received one
Arrived == IF Len(rx') > Len(rx) THEN <<rx'[Len(rx')]>> ELSE <<>>

\* C7: a text frame that json.loads rejects is dropped: no listener is called
\* for it and the task stays in its loop, whether it is the first frame of the
\* connection or not.
C7_MalformedDropped ==
    [][(Arrived # <<>> /\ ~Arrived[1].json) =>
          /\ data_received' = data_received
          /\ pc' \in LoopPcs]_vars

\* C8: a frame with message_type "StateUpdate" is handed, whole and in arrival
\* order, to data_receive of every registered listener; a frame with another
\* message_type is handed to none; either way the task stays in its loop.
C8_DispatchFilter ==
    [][(Arrived # <<>> /\ Arrived[1].json) =>
          /\ pc' \in LoopPcs
          /\ \A l \in Listeners :
                data_received'[l] =
                    IF Arrived[1].message_type = "StateUpdate" /\ l \in Registered
                    THEN Append(data_received[l], Arrived[1])
                    ELSE data_received[l]]_vars

\* two listeners got two StateUpdate frames, with a Ping frame between them
C8_Witness ==
    /\ Len(rx) = 3
    /\ rx[2].message_type = "Ping"
    /\ \A l \in 1..2 : data_received[l] = <<rx[1], rx[3]>>
    /\ pc \in LoopPcs

\* command k is in the outbound queue or being transmitted
Enqueued(k) == \E i \in 1..Len(InFlight \o msg_to_send) : (InFlight \o msg_to_send)[i].id = k
\* a transmission of command k succeeded
Delivered(k) == \E i \in 1..Len(Transmitted) : Transmitted[i].cmd.id = k

\* C9: a command that was enqueued, in whatever state of the connection, is
\* transmitted in the end, given that the connection is established again and
\* that transmissions succeed in the end.
C9_EventuallyTransmitted ==
    \A k \in 1..MaxCmds : [](Enqueued(k) => <>Delivered(k))

\* the same, for the runs in which no send_json call of the event-loop thread
\* finds the lock held by the suspended drain
C9_UnlessLoopBlocked ==
    ([]~LoopBlocked) => C9_EventuallyTransmitted

\* C10: on a refresh tick async_refresh_token is called, once, if and only if
\* at least 1200 s have passed since _last_refresh_token_ts.
C10_RefreshFrom1200 ==
    tick_log.elapsed # -1 =>
        tick_log.calls = IF tick_log.elapsed >= RefreshAfter THEN 1 ELSE 0

\* C10 as amended: on a refresh tick async_refresh_token is called, once, if
\* and only if more than 1200 s have passed since _last_refresh_token_ts.
C10_RefreshAfter1200 ==
    tick_log.elapsed # -1 =>
        tick_log.calls = IF tick_log.elapsed > RefreshAfter THEN 1 ELSE 0

\* a tick 1201 s after _last_refresh_token_ts has called async_refresh_token once
C10_Witness == tick_log.elapsed = RefreshAfter + 1 /\ tick_log.calls = 1

\* ticks at 1199 s and at 1200 s have called nothing
C10_Tick1199 == tick_log.elapsed = RefreshAfter - 1 /\ tick_log.calls = 0
C10_Tick1200 == tick_log.elapsed = RefreshAfter /\ tick_log.calls = 0

\* C11: async_auth returns True only if the login request of that very call
\* was accepted, whatever tokens an earlier login left; and a non-empty
\* access token stems from an accepted login.
C11_SuccessOnlyIfAccepted ==
    /\ auth_log.result => auth_log.resp = "accepted"
    /\ access_token # "" => access_token = "tok1"

\* a step of refresh_token that called async_refresh_token
RefreshCalled == timer_refresh' # timer_refresh /\ tick_log'.calls = 1

\* C12: a refresh that fails (a status other than 200, a rejected answer or an
\* exception in async_refresh_token) leaves the tokens, _last_refresh_token_ts
\* and the connection as they were, and a refresh timer stays pending.
C12_FailedRefreshChangesNothing ==
    [][(RefreshCalled /\ tick_log'.resp # "accepted") =>
          /\ UNCHANGED <<sessionVars, last_refresh_token_ts, pc, websocket>>
          /\ timer_refresh' # {}]_vars

\* the same, for the failures that happen before line 154 has assigned
C12_UnlessPartial ==
    [][(RefreshCalled /\ tick_log'.resp \notin {"accepted", "partial"}) =>
          /\ UNCHANGED <<sessionVars, last_refresh_token_ts, pc, websocket>>
          /\ timer_refresh' # {}]_vars

\* the frames in the outbound queue, being transmitted, or handed to the websocket
Outbound == msg_to_send \o InFlight \o [i \in 1..Len(wire) |-> wire[i].cmd]

\* C13: every frame that is queued or transmitted, the keepalive of send_ping
\* included, carries token, mid (the session id) and ts.
C13_FramesCarryFields ==
    \A i \in 1..Len(Outbound) :
        /\ {"token", "mid", "ts"} \subseteq DOMAIN Outbound[i]
        /\ Outbound[i].mid = session_id

\* C14: at most one websocket is open or being opened: no task chain connects
\* beside the one that exists.
C14_OneConnection ==
    ~(pc \in {"connecting"} \cup LoopPcs /\ pc_other \in {"connecting", "open"})

\* C15: _last_refresh_token_ts never decreases, and only a login or a refresh
\* tick (the steps that start a refresh timer) changes it: no step of the
\* websocket task does.
C15_RefreshTsOnlyByAuth ==
    [][/\ last_refresh_token_ts' >= last_refresh_token_ts
       /\ last_refresh_token_ts' # last_refresh_token_ts =>
              timer_refresh' # timer_refresh]_vars

\* a step of refresh_token
RefreshTick == timer_refresh' # timer_refresh

\* C16: after Connected was left through a receive error, a close frame or an
\* exception in the loop, the first refresh tick that follows calls
\* async_refresh_token, also when the connection was opened again before it.
C16_RefreshAfterDrop ==
    [][(dropped /\ RefreshTick) => tick_log'.calls = 1]_vars

\* C17: a ping timer is pending only while the task is in its loop: at most
\* one at a time, and none once the task has left Connected (waiting to
\* reconnect, connecting again, or ended).
C17_PingOnlyWhileConnected ==
    /\ Cardinality(timer_ping) <= 1
    /\ pc \in {"none", "start", "connecting", "wait", "done"} => timer_ping = {}

\* C18: the loop removes an element from _msg_to_send, and puts one back, only
\* while it holds _msg_lock: whenever a popped command is being transmitted
\* the lock is the loop's.
C18_DrainHoldsLock == pc = "send" => msg_lock = "loop"

\* C19: with close() never called, a connection attempt that failed and a
\* connection that dropped are followed by the watchdog's start and the
\* reconnect wait, and the wait by a new connection attempt.
C19_ReconnectsUnlessStopped ==
    /\ (pc = "closing") ~> (pc = "wait" /\ timer_connection_lost = now + ConnectionLostDelay)
    /\ (pc = "wait") ~> (pc = "connecting")

\* connecting again after the connection dropped and the wait of 5 s
C19_Witness ==
    /\ pc = "connecting"
    /\ websocket = "closed"
    /\ timer_connection_lost # NoTimer
    /\ now >= wake

\* C20: once close() was called, the task has ended and the grace period has
\* passed, nothing happens any more: no timer fires or is started, no listener
\* is called, no command is queued or transmitted, no session field changes.
C20_QuiescedAfterStop ==
    [][(stop_running /\ pc = "done" /\ quiet >= MaxGrace) =>
          UNCHANGED <<timer_refresh, timer_ping, cl_timers, tick_log, sessionVars,
                      last_refresh_token_ts, msg_to_send, wire, ep, data_received>>]_vars

\* C21: a frame handed to the websocket carries the access token in force at
\* that moment, also when the token was refreshed, or the connection dropped
\* and was opened again, after the command was enqueued.
C21_SentWithCurrentToken ==
    [][Len(wire') > Len(wire) =>
          wire'[Len(wire')].cmd.token = access_token]_vars

\* C22: a send_json call never waits for ever: a call of the event-loop thread
\* that finds the lock held by the suspended drain gets the lock, appends its
\* command and returns, and the loop goes on.
C22_EnqueueReturns == LoopBlocked ~> ~LoopBlocked

====
